---- MODULE Spec2Model ----
(***************************************************************************)
(* Model of polygot_tool.py (class PolyglotTool): creation of single and   *)
(* split polyglot videos (container bytes followed by payload bytes) and   *)
(* signature-based extraction / recombination of the payload.              *)
(*                                                                         *)
(* Files are byte sequences held in fs (path -> bytes); text artefacts     *)
(* (recovery information, scripts, recovery package) are held in docs.     *)
(* A path is a record [base, kind, n]:                                     *)
(*   kind "mp4"            "<base>.mp4"                                    *)
(*   kind "part"           "<base>_part<n>.mp4"                            *)
(*   kind "zip"            "<base>.zip"                                    *)
(*   kind "temp_zip"       "<base>_temp.zip"                               *)
(*   kind "recovery_txt"   "<base>_recovery.txt"                           *)
(*   kind "recovery_zip"   "<base>_recovery.zip"                           *)
(*   kind "extracted_mp4"  "extracted_from_<base>.mp4.zip"                 *)
(*   kind "extracted_part" "extracted_from_<base>_part<n>.mp4.zip"         *)
(*   kind "extracted_zip"  "extracted_from_<base>.zip.zip"                 *)
(*   kind "cwd"            a fixed name in the working directory           *)
(***************************************************************************)
EXTENDS Integers, Sequences, FiniteSets, TLC

VARIABLES fs, docs, temp_files, pc, cr, ex, creates, extracts, ui, vf, cl, cp

vars == <<fs, docs, temp_files, pc, cr, ex, creates, extracts, ui, vf, cl, cp>>

\* the state of the menu session outside the create and extract operations
session == <<vf, cl, cp>>

(***************************************************************************)
(* Bounds of the model.                                                    *)
(***************************************************************************)
MaxContainerLen == 2
MaxPayloadLen == 2
MaxSplitSize == 2
MaxCreates == 1
MaxExtracts == 1
MaxChunks == 2
MaxVerifies == 2

(***************************************************************************)
(* Bytes.  80 = 'P', 75 = 'K', 120 = 'x' (any other byte).                 *)
(***************************************************************************)
Bytes == {80, 75, 120}

\* b'PK', the signature searched by data.find(b'PK')
Signature == <<80, 75>>

RECURSIVE SeqsOfLen(_, _)
SeqsOfLen(S, n) ==
    IF n = 0 THEN {<<>>}
    ELSE {Append(s, b) : s \in SeqsOfLen(S, n - 1), b \in S}

SeqsUpTo(S, lo, hi) == UNION {SeqsOfLen(S, n) : n \in lo..hi}

Min(a, b) == IF a < b THEN a ELSE b

(***************************************************************************)
(* Paths.                                                                  *)
(***************************************************************************)
PathOf(base, kind, n) == [base |-> base, kind |-> kind, n |-> n]

NoPath == PathOf("", "none", 0)

\* f"{output_base}.mp4"
SingleOutputPath(output_base) == PathOf(output_base, "mp4", 0)

\* a part name numbered from zero
PartOutputPathZeroBased(output_base, part_num) == PathOf(output_base, "part", part_num - 1)

\* f"{output_base}_part{part_num}.mp4"
PartOutputPath(output_base, part_num) == PathOf(output_base, "part", part_num)

\* f"{output_base}_temp.zip"
TempZipPath(output_base) == PathOf(output_base, "temp_zip", 0)

\* f"{output_base}_recovery.zip"
RecoveryZipPath(output_base) == PathOf(output_base, "recovery_zip", 0)

\* f"{os.path.splitext(polyglot_path)[0]}_recovery.txt"
RecoveryInfoPath(polyglot_path) == PathOf(polyglot_path.base, "recovery_txt", 0)

\* f"extracted_from_{os.path.basename(polyglot_path)}.zip"
ExtractedZipPath(polyglot_path) ==
    PathOf(polyglot_path.base,
           CASE polyglot_path.kind = "mp4" -> "extracted_mp4"
             [] polyglot_path.kind = "part" -> "extracted_part"
             [] OTHER -> "extracted_zip",
           polyglot_path.n)

\* temp_zip = "temp_verify.zip"
TempVerifyPath == PathOf("temp_verify.zip", "cwd", 0)

\* "combined_extracted.zip"
CombinedZipPath == PathOf("combined_extracted.zip", "cwd", 0)

Exists(f, path) == path \in DOMAIN f

\* open(path, 'wb') ... write(data): create or replace the file
WriteFile(f, path, data) ==
    [p \in (DOMAIN f) \cup {path} |-> IF p = path THEN data ELSE f[p]]

\* os.remove(path)
RemoveFile(f, path) == [p \in (DOMAIN f) \ {path} |-> f[p]]

(***************************************************************************)
(* hashlib.md5(...).hexdigest(): an injective digest of the bytes          *)
(***************************************************************************)
Md5(data) == [md5 |-> data]

(***************************************************************************)
(* Byte-level helpers.                                                     *)
(***************************************************************************)
\* chunk_size = 16*1024*1024
chunk_size == 16777216

\* f.seek(pos); f.read(n): at most n bytes from offset pos, fewer at EOF
Read(src, pos, n) == SubSeq(src, pos + 1, Min(pos + n, Len(src)))

\* while True: chunk = f.read(chunk_size); if not chunk: break; out.write(chunk)
RECURSIVE CopyAllFrom(_, _)
CopyAllFrom(src, pos) ==
    LET chunk == Read(src, pos, chunk_size)
    IN  IF chunk = <<>> THEN <<>>
        ELSE chunk \o CopyAllFrom(src, pos + Len(chunk))

CopyAll(src) == CopyAllFrom(src, 0)

\* a request for a whole chunk whatever remains of the range
ToReadWholeChunk(part_len, copied) == chunk_size

\* to_read = min(chunk_size, part_len - copied)
ToRead(part_len, copied) == Min(chunk_size, part_len - copied)

\* len(f.read(to_read)) with the file position at pos in a regular file of
\* src_len bytes: to_read bytes, fewer at the end of the file, none beyond it
ReadLen(src_len, pos, to_read) ==
    IF pos >= src_len THEN 0 ELSE Min(to_read, src_len - pos)

\* while copied < part_len: to_read = min(chunk_size, part_len - copied); ...
RECURSIVE CopyLoop(_, _, _, _)
CopyLoop(src, pos, part_len, copied) ==
    IF ~(copied < part_len) THEN <<>>
    ELSE LET to_read == ToRead(part_len, copied)
             chunk == Read(src, pos, to_read)
         IN  IF chunk = <<>> THEN <<>>
             ELSE chunk \o CopyLoop(src, pos + Len(chunk), part_len,
                                    copied + Len(chunk))

\* zip_in.seek(start); copied = 0; the range-bounded copy loop
CopyRange(src, start, part_len) == CopyLoop(src, start, part_len, 0)

\* data.find(b'PK'): scan from index k upwards, -1 when absent
RECURSIVE FindFrom(_, _, _)
FindFrom(data, sig, k) ==
    IF k + Len(sig) > Len(data) THEN -1
    ELSE IF SubSeq(data, k + 1, k + Len(sig)) = sig THEN k
    ELSE FindFrom(data, sig, k + 1)

\* a scan that starts one byte too late
FindSkipFirst(data, sig) == FindFrom(data, sig, 1)

Find(data, sig) == FindFrom(data, sig, 0)

\* data[start:]
SliceFrom(data, start) == SubSeq(data, start + 1, Len(data))

\* zipfile.ZipFile(..., 'w', ZIP_STORED): every entry is a local file header
\* (starting with the signature) followed by the stored bytes; the archive
\* ends with the central directory / end record (starting with the signature)
RECURSIVE PackEntries(_)
PackEntries(entries) ==
    IF entries = <<>> THEN <<>>
    ELSE Signature \o Head(entries) \o PackEntries(Tail(entries))

Pack(entries) == PackEntries(entries) \o Signature

\* zipfile.ZipFile(output_zip, 'r') does not raise BadZipFile: the end record
\* is found at the end of the data
IsZip(data) ==
    /\ Len(data) >= Len(Signature)
    /\ SubSeq(data, Len(data) - Len(Signature) + 1, Len(data)) = Signature

(***************************************************************************)
(* File names as character codes, and sorted(part_files).                  *)
(***************************************************************************)
\* str(part_num) inside the f-string
RECURSIVE Decimal(_)
Decimal(n) ==
    IF n < 10 THEN <<48 + n>>
    ELSE Decimal(n \div 10) \o <<48 + (n % 10)>>

BaseChars(base) ==
    CASE base = "o" -> <<111>>
      [] base = "v" -> <<118>>
      [] OTHER -> <<97>>

\* the characters of "<base>.mp4" and "<base>_part<n>.mp4"
Name(path) ==
    IF path.kind = "part"
    THEN BaseChars(path.base) \o <<95, 112, 97, 114, 116>> \o Decimal(path.n)
         \o <<46, 109, 112, 52>>
    ELSE BaseChars(path.base) \o <<46, 109, 112, 52>>

\* str.__lt__: lexicographic comparison by code point
RECURSIVE LexLess(_, _)
LexLess(a, b) ==
    IF b = <<>> THEN FALSE
    ELSE IF a = <<>> THEN TRUE
    ELSE IF Head(a) # Head(b) THEN Head(a) < Head(b)
    ELSE LexLess(Tail(a), Tail(b))

\* list.sort step: path placed before the first element it is less than
RECURSIVE Insert(_, _)
Insert(path, order) ==
    IF order = <<>> THEN <<path>>
    ELSE IF LexLess(Name(path), Name(Head(order))) THEN <<path>> \o order
    ELSE <<Head(order)>> \o Insert(path, Tail(order))

\* sorted(part_files)
RECURSIVE Sorted(_)
Sorted(paths) ==
    IF paths = {} THEN <<>>
    ELSE LET any == CHOOSE p \in paths : TRUE
         IN  Insert(any, Sorted(paths \ {any}))

(***************************************************************************)
(* The split plan of create_split_polyglot / create_split_polyglot_direct. *)
(***************************************************************************)
\* a part count that rounds down
NumPartsFloor(zip_size, split_size) == zip_size \div split_size

\* num_parts = math.ceil(zip_size / split_size)
NumParts(zip_size, split_size) == (zip_size + split_size - 1) \div split_size

\* start = i * split_size
PartStart(i, split_size) == i * split_size

\* end = min((i + 1) * split_size, zip_size)
PartEnd(i, split_size, zip_size) == Min((i + 1) * split_size, zip_size)

\* part_len = end - start
PartLen(i, split_size, zip_size) ==
    PartEnd(i, split_size, zip_size) - PartStart(i, split_size)

(***************************************************************************)
(* Inputs of the operations.                                               *)
(***************************************************************************)
\* video templates the caller names (validated by ask_file_path to exist)
VideoPaths == {PathOf("v", "mp4", 0), PathOf("v", "part", 1)}

\* the file to hide / the archive to embed
ArchivePath == PathOf("a", "zip", 0)

OutputBases == {"o", "v"}

Containers == SeqsUpTo(Bytes, 0, MaxContainerLen)

LongPayload == <<80, 75, 120, 80, 75, 120, 120, 75, 80, 120, 120>>

Payloads == SeqsUpTo(Bytes, 1, MaxPayloadLen) \cup {LongPayload}

\* a split size no smaller than any archive of the model: a one-part split
LargeSplitSize == Len(LongPayload) + 2 * Len(Signature)

SplitSizes == (1..MaxSplitSize) \cup {LargeSplitSize}

\* the parameters and locals of the latest create operation
NoCreate ==
    [op |-> "none", video_path |-> NoPath, output_base |-> "", source |-> NoPath,
     split_size |-> 0, zip_size |-> 0, num_parts |-> 0, i |-> 0,
     polyglot_videos |-> <<>>, part_checksums |-> <<>>,
     original_checksum |-> Md5(<<>>), container |-> <<>>, payload |-> <<>>,
     files_to_hide |-> <<>>, error |-> ""]

\* the parameters and locals of the latest extract operation; scan holds the
\* result of data.find(b'PK') for every file read, after the number of create
\* operations that preceded it
NoExtract ==
    [op |-> "none", polyglot_path |-> NoPath, part_files |-> <<>>,
     scan |-> <<>>, data |-> <<>>, output_zip |-> NoPath, console |-> "",
     extract_dir |-> FALSE, after |-> 0]

\* what the user typed at the prompts of the latest extraction: the path, the
\* answer to "Extract and combine all parts?" and to "Extract the files?"
NoInput ==
    [op |-> "none", polyglot_path |-> NoPath, extract_all |-> FALSE,
     extract |-> FALSE]

\* the latest verify_polyglot: how many ran, the file named, b'PK' in data
NoVerify == [n |-> 0, polyglot_path |-> NoPath, has_zip |-> FALSE]

\* the latest cleanup(): who called it, temp_files as it was when the call
\* started, and the exception it raised, if any
NoCleanup == [op |-> "none", tracked |-> <<>>, error |-> ""]

\* the locals of the range-bounded copy loop over a source of src_len bytes
NoCopy ==
    [op |-> "none", src_len |-> 0, start |-> 0, part_len |-> 0, pos |-> 0,
     copied |-> 0, to_read |-> 0, reads |-> 0]

\* the content of a text artefact
Doc(videos, checksums, checksum) ==
    [polyglot_videos |-> videos, part_checksums |-> checksums, checksum |-> checksum]

\* the state right after PolyglotTool() in a directory holding files
InitState(files) ==
    /\ fs = files
    /\ docs = [p \in {} |-> Doc(<<>>, <<>>, Md5(<<>>))]
    /\ temp_files = <<>>
    /\ pc = "menu"
    /\ cr = NoCreate
    /\ ex = NoExtract
    /\ creates = 0
    /\ extracts = 0
    /\ ui = NoInput
    /\ vf = NoVerify
    /\ cl = NoCleanup
    /\ cp = NoCopy

\* a directory holding a video template and a file to hide
InputFiles(video, c, a) == [p \in {video, ArchivePath} |-> IF p = video THEN c ELSE a]

Init ==
    \E video \in VideoPaths, c \in Containers, a \in Payloads :
        InitState(InputFiles(video, c, a))

(***************************************************************************)
(* Creation, single mode.                                                  *)
(***************************************************************************)
\* the bytes of the files of files_to_hide, in dict order
EntryData(f, files_to_hide) == [k \in 1..Len(files_to_hide) |-> f[files_to_hide[k]]]

\* with open(video_path, 'rb') as v_in, open(output_path, 'wb') as out:
\* the output is created empty (truncated), then receives the bytes read from
\* the video file and then the payload bytes
WritePolyglot(f, video_path, output_path, payload) ==
    LET opened == WriteFile(f, output_path, <<>>)
    IN  WriteFile(opened, output_path, CopyAll(opened[video_path]) \o payload)

create_single_polyglot(video_path, files_to_hide, output_base) ==
    LET output_path == SingleOutputPath(output_base)
        zip_buffer == Pack(EntryData(fs, files_to_hide))
        written == WritePolyglot(fs, video_path, output_path, CopyAll(zip_buffer))
        checksum == Md5(written[output_path])
    IN  /\ pc = "menu"
        /\ creates < MaxCreates
        /\ creates' = creates + 1
        /\ fs' = written
        /\ docs' = WriteFile(docs, RecoveryInfoPath(output_path),
                             Doc(<<output_path>>, <<>>, checksum))
        /\ cr' = [NoCreate EXCEPT !.op = "single", !.video_path = video_path,
                                  !.output_base = output_base,
                                  !.files_to_hide = files_to_hide,
                                  !.polyglot_videos = <<output_path>>,
                                  !.container = fs[video_path],
                                  !.payload = zip_buffer]
        /\ UNCHANGED <<temp_files, pc, ex, extracts, ui, session>>

create_single_polyglot_direct(video_path, archive_path, output_base) ==
    LET output_path == SingleOutputPath(output_base)
        written == WritePolyglot(fs, video_path, output_path, CopyAll(fs[archive_path]))
        checksum == Md5(written[output_path])
    IN  /\ pc = "menu"
        /\ creates < MaxCreates
        /\ creates' = creates + 1
        /\ fs' = written
        /\ docs' = WriteFile(docs, RecoveryInfoPath(output_path),
                             Doc(<<output_path>>, <<>>, checksum))
        /\ cr' = [NoCreate EXCEPT !.op = "single_direct", !.video_path = video_path,
                                  !.output_base = output_base,
                                  !.source = archive_path,
                                  !.polyglot_videos = <<output_path>>,
                                  !.container = fs[video_path],
                                  !.payload = fs[archive_path]]
        /\ UNCHANGED <<temp_files, pc, ex, extracts, ui, session>>

\* the chunk at which a read or write raises OSError: while the video is
\* copied (nothing written yet) or while the payload is copied (the video
\* bytes are written)
FailPoints == {"video", "payload"}

\* the output left behind when the with-block is left by the exception: the
\* file opened with 'wb' holds what was written before the failing chunk
PartialOutput(f, video_path, output_path, failed_at) ==
    LET opened == WriteFile(f, output_path, <<>>)
    IN  IF failed_at = "video" THEN opened
        ELSE WriteFile(opened, output_path, CopyAll(opened[video_path]))

\* create_single_polyglot left by an OSError: the checksum and the recovery
\* information are never reached and nothing removes the output
create_single_polyglot_raises(video_path, files_to_hide, output_base, failed_at) ==
    LET output_path == SingleOutputPath(output_base)
    IN  /\ pc = "menu"
        /\ creates < MaxCreates
        /\ creates' = creates + 1
        /\ fs' = PartialOutput(fs, video_path, output_path, failed_at)
        /\ cr' = [NoCreate EXCEPT !.op = "single", !.video_path = video_path,
                                  !.output_base = output_base,
                                  !.files_to_hide = files_to_hide,
                                  !.container = fs[video_path],
                                  !.payload = Pack(EntryData(fs, files_to_hide)),
                                  !.error = "OSError"]
        /\ pc' = "crashed"
        /\ UNCHANGED <<docs, temp_files, ex, extracts, ui, session>>

create_single_polyglot_direct_raises(video_path, archive_path, output_base, failed_at) ==
    LET output_path == SingleOutputPath(output_base)
    IN  /\ pc = "menu"
        /\ creates < MaxCreates
        /\ creates' = creates + 1
        /\ fs' = PartialOutput(fs, video_path, output_path, failed_at)
        /\ cr' = [NoCreate EXCEPT !.op = "single_direct", !.video_path = video_path,
                                  !.output_base = output_base,
                                  !.source = archive_path,
                                  !.container = fs[video_path],
                                  !.payload = fs[archive_path],
                                  !.error = "OSError"]
        /\ pc' = "crashed"
        /\ UNCHANGED <<docs, temp_files, ex, extracts, ui, session>>

(***************************************************************************)
(* Creation, split mode.                                                   *)
(***************************************************************************)
create_split_polyglot(video_path, files_to_hide, output_base, split_size) ==
    LET temp_zip_path == TempZipPath(output_base)
        written == WriteFile(fs, temp_zip_path, Pack(EntryData(fs, files_to_hide)))
        zip_size == Len(written[temp_zip_path])
    IN  /\ pc = "menu"
        /\ creates < MaxCreates
        /\ creates' = creates + 1
        /\ fs' = written
        /\ cr' = [NoCreate EXCEPT !.op = "split", !.video_path = video_path,
                                  !.output_base = output_base,
                                  !.files_to_hide = files_to_hide,
                                  !.source = temp_zip_path,
                                  !.split_size = split_size,
                                  !.zip_size = zip_size,
                                  !.num_parts = NumParts(zip_size, split_size),
                                  !.container = fs[video_path],
                                  !.payload = written[temp_zip_path]]
        /\ pc' = "split"
        /\ UNCHANGED <<docs, temp_files, ex, extracts, ui, session>>

create_split_polyglot_direct(video_path, archive_path, output_base, split_size) ==
    LET archive_size == Len(fs[archive_path])
    IN  /\ pc = "menu"
        /\ creates < MaxCreates
        /\ creates' = creates + 1
        /\ cr' = [NoCreate EXCEPT !.op = "split_direct", !.video_path = video_path,
                                  !.output_base = output_base,
                                  !.source = archive_path,
                                  !.split_size = split_size,
                                  !.zip_size = archive_size,
                                  !.num_parts = NumParts(archive_size, split_size),
                                  !.container = fs[video_path],
                                  !.payload = fs[archive_path]]
        /\ pc' = "split"
        /\ UNCHANGED <<fs, docs, temp_files, ex, extracts, ui, session>>

\* one iteration of "for i in range(num_parts)": the part file is the video
\* followed by the range [start, end) of the source
PartFile(f, c) ==
    LET start == PartStart(c.i, c.split_size)
        part_len == PartLen(c.i, c.split_size, c.zip_size)
        output_path == PartOutputPath(c.output_base, c.i + 1)
        opened == WriteFile(f, output_path, <<>>)
    IN  WriteFile(opened, output_path,
                  CopyAll(opened[c.video_path])
                  \o CopyRange(opened[c.source], start, part_len))

\* a checksum that is always read from the first part file
PartChecksumOfFirst(f, video_path, output_path) ==
    Md5(SliceFrom(f[PathOf(output_path.base, "part", 1)], Len(f[video_path])))

\* f.seek(os.path.getsize(video_path)); part_data = f.read();
\* hashlib.md5(part_data).hexdigest()
PartChecksum(f, video_path, output_path) ==
    Md5(SliceFrom(f[output_path], Len(f[video_path])))

WritePart ==
    LET output_path == PartOutputPath(cr.output_base, cr.i + 1)
        written == PartFile(fs, cr)
    IN  /\ pc = "split"
        /\ cr.i < cr.num_parts
        /\ fs' = written
        /\ cr' = [cr EXCEPT !.i = cr.i + 1,
                            !.polyglot_videos = Append(cr.polyglot_videos, output_path),
                            !.part_checksums =
                                Append(cr.part_checksums,
                                       PartChecksum(written, cr.video_path, output_path))]
        /\ UNCHANGED <<docs, temp_files, pc, ex, creates, extracts, ui, session>>

\* an iteration of the part loop left by an OSError: the part opened with 'wb'
\* stays as far as it was written, the lists are not appended to, the parts
\* written before stay, and the rest of the function is skipped
WritePartRaises(failed_at) ==
    LET output_path == PartOutputPath(cr.output_base, cr.i + 1)
    IN  /\ pc = "split"
        /\ cr.i < cr.num_parts
        /\ fs' = PartialOutput(fs, cr.video_path, output_path, failed_at)
        /\ cr' = [cr EXCEPT !.error = "OSError"]
        /\ pc' = "crashed"
        /\ UNCHANGED <<docs, temp_files, ex, creates, extracts, ui, session>>

\* the names written into the working directory by the recovery package
RecoveryFiles(direct) ==
    IF direct
    THEN <<PathOf("recovery_instructions.txt", "cwd", 0),
           PathOf("recover_direct_split.py", "cwd", 0),
           PathOf("extract_direct_part.py", "cwd", 0)>>
    ELSE <<PathOf("recovery_instructions.txt", "cwd", 0),
           PathOf("recover_split.py", "cwd", 0),
           PathOf("extract_part.py", "cwd", 0)>>

\* the instructions f-string reads polyglot_videos[0] and polyglot_videos[1]
RecoveryRaises(polyglot_videos) == Len(polyglot_videos) < 2

\* create_split_recovery_package(_direct): three files in the working
\* directory, each appended to temp_files, and the recovery ZIP
RecoveryDocs(d, output_base, direct, content) ==
    LET names == RecoveryFiles(direct)
    IN  [p \in (DOMAIN d) \cup {names[1], names[2], names[3],
                                RecoveryZipPath(output_base)} |->
            IF p \in {names[1], names[2], names[3], RecoveryZipPath(output_base)}
            THEN content ELSE d[p]]

FinishSplit ==
    LET direct == cr.op = "split_direct"
        original_checksum == Md5(fs[cr.source])
    IN  /\ pc = "split"
        /\ cr.i = cr.num_parts
        /\ IF RecoveryRaises(cr.polyglot_videos)
           THEN /\ pc' = "crashed"
                /\ cr' = [cr EXCEPT !.original_checksum = original_checksum,
                                    !.error = "IndexError"]
                /\ UNCHANGED <<fs, docs, temp_files>>
           ELSE /\ pc' = "menu"
                /\ cr' = [cr EXCEPT !.original_checksum = original_checksum]
                /\ docs' = RecoveryDocs(docs, cr.output_base, direct,
                                        Doc(cr.polyglot_videos, cr.part_checksums,
                                            original_checksum))
                /\ temp_files' = temp_files \o RecoveryFiles(direct)
                /\ fs' = IF direct THEN fs ELSE RemoveFile(fs, cr.source)
        /\ UNCHANGED <<ex, creates, extracts, ui, session>>

\* an uncaught exception ends the process; main() starts a new PolyglotTool
main ==
    /\ pc = "crashed"
    /\ pc' = "menu"
    /\ temp_files' = <<>>
    /\ UNCHANGED <<fs, docs, cr, ex, creates, extracts, ui, session>>

(***************************************************************************)
(* Extraction.                                                             *)
(***************************************************************************)
\* data_start = data.find(b'PK'); if data_start == -1: data_start = len(data) // 2
DataStart(data) ==
    LET data_start == Find(data, Signature)
    IN  IF data_start = -1 THEN Len(data) \div 2 ELSE data_start

\* for part_file in sorted(part_files): combined_data.extend(data[data_start:])
RECURSIVE CombinedData(_, _)
CombinedData(f, order) ==
    IF order = <<>> THEN <<>>
    ELSE SliceFrom(f[Head(order)], DataStart(f[Head(order)]))
         \o CombinedData(f, Tail(order))

\* glob.glob(f"{base_name}_part*{ext}") with base_name = path.split('_part')[0]
PossibleParts(f, polyglot_path) ==
    {p \in DOMAIN f : p.kind = "part" /\ p.base = polyglot_path.base}

\* a single extraction that slices at the heuristic offset instead of giving up
extract_single_polyglot_fallback(polyglot_path, extract) ==
    LET data == fs[polyglot_path]
        output_zip == ExtractedZipPath(polyglot_path)
        zip_data == SliceFrom(data, DataStart(data))
    IN  /\ fs' = WriteFile(fs, output_zip, zip_data)
        /\ ex' = [NoExtract EXCEPT !.op = "single",
                                   !.polyglot_path = polyglot_path,
                                   !.scan = <<Find(data, Signature)>>,
                                   !.after = creates,
                                   !.data = zip_data,
                                   !.output_zip = output_zip,
                                   !.console = IF IsZip(zip_data)
                                               THEN "extracted_ok"
                                               ELSE "extracted_bad_zip",
                                   !.extract_dir = IsZip(zip_data) /\ extract]

extract_single_polyglot(polyglot_path, extract) ==
    LET data == fs[polyglot_path]
        zip_start == Find(data, Signature)
        output_zip == ExtractedZipPath(polyglot_path)
        zip_data == SliceFrom(data, zip_start)
    IN  IF zip_start = -1
        THEN /\ ex' = [NoExtract EXCEPT !.op = "single",
                                        !.polyglot_path = polyglot_path,
                                        !.scan = <<zip_start>>,
                                        !.after = creates,
                                        !.console = "no_zip_data"]
             /\ fs' = fs
        ELSE /\ fs' = WriteFile(fs, output_zip, zip_data)
             /\ ex' = [NoExtract EXCEPT !.op = "single",
                                        !.polyglot_path = polyglot_path,
                                        !.scan = <<zip_start>>,
                                        !.after = creates,
                                        !.data = zip_data,
                                        !.output_zip = output_zip,
                                        !.console = IF IsZip(zip_data)
                                                    THEN "extracted_ok"
                                                    ELSE "extracted_bad_zip",
                                        !.extract_dir = IsZip(zip_data) /\ extract]

combine_split_polyglots(part_files, extract) ==
    LET order == Sorted(part_files)
        combined_data == CombinedData(fs, order)
        output_zip == CombinedZipPath
    IN  /\ fs' = WriteFile(fs, output_zip, combined_data)
        /\ ex' = [NoExtract EXCEPT !.op = "combine",
                                   !.part_files = order,
                                   !.scan = [k \in 1..Len(order) |->
                                                Find(fs[order[k]], Signature)],
                                   !.after = creates,
                                   !.data = combined_data,
                                   !.output_zip = output_zip,
                                   !.console = IF IsZip(combined_data)
                                               THEN "combined_ok"
                                               ELSE "combined_bad_zip",
                                   !.extract_dir = IsZip(combined_data) /\ extract]

\* a discovery that combines every set of more than one part without asking
extract_split_polyglot_unasked(polyglot_path, extract_all, extract) ==
    LET possible_parts == PossibleParts(fs, polyglot_path)
    IN  IF Cardinality(possible_parts) > 1
        THEN combine_split_polyglots(possible_parts, extract)
        ELSE extract_single_polyglot(polyglot_path, extract)

extract_split_polyglot(polyglot_path, extract_all, extract) ==
    LET possible_parts == PossibleParts(fs, polyglot_path)
    IN  IF Cardinality(possible_parts) > 1
        THEN IF extract_all
             THEN combine_split_polyglots(possible_parts, extract)
             ELSE /\ ex' = [NoExtract EXCEPT !.op = "split",
                                             !.polyglot_path = polyglot_path,
                                             !.after = creates,
                                             !.console = "declined"]
                  /\ fs' = fs
        ELSE extract_single_polyglot(polyglot_path, extract)

\* is_split = "_part" in polyglot_path and polyglot_path.endswith('.mp4')
IsSplitName(polyglot_path) == polyglot_path.kind = "part"

extract_from_polyglot(polyglot_path, extract_all, extract) ==
    /\ pc = "menu"
    /\ extracts < MaxExtracts
    /\ extracts' = extracts + 1
    /\ Exists(fs, polyglot_path)
    /\ IF IsSplitName(polyglot_path)
       THEN extract_split_polyglot(polyglot_path, extract_all, extract)
       ELSE extract_single_polyglot(polyglot_path, extract)
    /\ ui' = [op |-> "extract", polyglot_path |-> polyglot_path,
              extract_all |-> extract_all, extract |-> extract]
    /\ UNCHANGED <<docs, temp_files, pc, cr, creates, session>>

\* combine_split_polyglots called with the list of the parts just produced
CombineProduced(extract) ==
    /\ pc = "menu"
    /\ extracts < MaxExtracts
    /\ extracts' = extracts + 1
    /\ cr.op \in {"split", "split_direct"}
    /\ cr.i = cr.num_parts
    /\ combine_split_polyglots({cr.polyglot_videos[k] : k \in 1..Len(cr.polyglot_videos)},
                               extract)
    /\ ui' = [NoInput EXCEPT !.op = "combine", !.extract = extract]
    /\ UNCHANGED <<docs, temp_files, pc, cr, creates, session>>

(***************************************************************************)
(* Specification.                                                          *)
(***************************************************************************)
\* the file the caller names for extraction: a single polyglot or the first
\* part of a split set (the siblings are found by the glob)
PolyglotPaths == {p \in DOMAIN fs : p.kind \in {"mp4", "part"} /\ p.n <= 1}

Create ==
    \E video_path \in VideoPaths \cap DOMAIN fs, output_base \in OutputBases :
        \/ \E files_to_hide \in {<<>>, <<ArchivePath>>} :
               create_single_polyglot(video_path, files_to_hide, output_base)
        \/ create_single_polyglot_direct(video_path, ArchivePath, output_base)
        \/ \E split_size \in SplitSizes :
               create_split_polyglot(video_path, <<ArchivePath>>, output_base, split_size)
        \/ \E split_size \in SplitSizes :
               create_split_polyglot_direct(video_path, ArchivePath, output_base, split_size)

Extract ==
    \/ \E polyglot_path \in PolyglotPaths, extract_all \in BOOLEAN, extract \in BOOLEAN :
           extract_from_polyglot(polyglot_path, extract_all, extract)
    \/ \E extract \in BOOLEAN : CombineProduced(extract)

\* an I/O error while a create operation copies
Raise ==
    \E failed_at \in FailPoints :
        \/ \E video_path \in VideoPaths \cap DOMAIN fs, output_base \in OutputBases :
               \/ \E files_to_hide \in {<<>>, <<ArchivePath>>} :
                      create_single_polyglot_raises(video_path, files_to_hide,
                                                    output_base, failed_at)
               \/ create_single_polyglot_direct_raises(video_path, ArchivePath,
                                                       output_base, failed_at)
        \/ WritePartRaises(failed_at)

Next ==
    \/ Create
    \/ WritePart
    \/ FinishSplit
    \/ main
    \/ Extract

Spec == Init /\ [][Next]_vars

(***************************************************************************)
(* Creation in an environment whose reads and writes may fail.             *)
(***************************************************************************)
NextRaise ==
    \/ Create
    \/ WritePart
    \/ FinishSplit
    \/ Raise
    \/ main

SpecRaise == Init /\ [][NextRaise]_vars

(***************************************************************************)
(* The split plan on its own: the plan depends on the sizes only, so the   *)
(* inputs are files of every size made of one byte value.                  *)
(***************************************************************************)
PlanContainers == SeqsUpTo({120}, 0, MaxContainerLen)

PlanPayloads == SeqsUpTo({120}, 1, MaxPayloadLen) \cup {LongPayload}

InitPlan ==
    \E video \in VideoPaths, c \in PlanContainers, a \in PlanPayloads :
        InitState(InputFiles(video, c, a))

CreateSplit ==
    \E video_path \in VideoPaths \cap DOMAIN fs, output_base \in OutputBases,
       split_size \in SplitSizes :
        \/ create_split_polyglot(video_path, <<ArchivePath>>, output_base, split_size)
        \/ create_split_polyglot_direct(video_path, ArchivePath, output_base, split_size)

NextPlan ==
    \/ CreateSplit
    \/ WritePart
    \/ FinishSplit
    \/ main

SpecPlan == InitPlan /\ [][NextPlan]_vars

(***************************************************************************)
(* Extraction on its own: the directory holds one file of any content up   *)
(* to the length of a container followed by a payload, or two files named  *)
(* like the parts of a split, the second of any content up to the length   *)
(* of a payload range and a signature.                                     *)
(***************************************************************************)
ScanFiles == SeqsUpTo(Bytes, 0, MaxContainerLen + MaxPayloadLen)

ScanParts == SeqsUpTo(Bytes, 0, MaxPayloadLen + Len(Signature))

InitScan ==
    \/ \E X \in ScanFiles :
           \/ InitState([p \in {PathOf("v", "mp4", 0)} |-> X])
           \/ InitState([p \in {PathOf("v", "part", 1)} |-> X])
    \/ \E X \in ScanParts, Y \in Containers :
           InitState([p \in {PathOf("v", "part", 1), PathOf("v", "part", 2)} |->
                         IF p.n = 1 THEN Y ELSE X])

NextScan ==
    \E polyglot_path \in PolyglotPaths, extract_all \in BOOLEAN, extract \in BOOLEAN :
        extract_from_polyglot(polyglot_path, extract_all, extract)

SpecScan == InitScan /\ [][NextScan]_vars

(***************************************************************************)
(* The menu session: verification, cleanup and the user's abort.           *)
(***************************************************************************)
\* os.path.exists(path), the working directory being fs and docs together
OsPathExists(f, d, path) == Exists(f, path) \/ Exists(d, path)

\* a loop body that removes without looking
ShouldRemoveAlways(f, d, temp_file) == TRUE

\* if os.path.exists(temp_file):
ShouldRemove(f, d, temp_file) == OsPathExists(f, d, temp_file)

\* for temp_file in self.temp_files: if os.path.exists(temp_file):
\* os.remove(temp_file); os.remove raises FileNotFoundError on a missing path
RECURSIVE CleanupLoop(_, _, _)
CleanupLoop(f, d, tracked) ==
    IF tracked = <<>> THEN [fs |-> f, docs |-> d, error |-> ""]
    ELSE LET temp_file == Head(tracked)
         IN  IF ShouldRemove(f, d, temp_file)
             THEN IF OsPathExists(f, d, temp_file)
                  THEN CleanupLoop(RemoveFile(f, temp_file), RemoveFile(d, temp_file),
                                   Tail(tracked))
                  ELSE [fs |-> f, docs |-> d, error |-> "FileNotFoundError"]
             ELSE CleanupLoop(f, d, Tail(tracked))

\* menu option 4: self.cleanup(); self.temp_files = [] is reached only when
\* the loop raised nothing
cleanup ==
    LET out == CleanupLoop(fs, docs, temp_files)
    IN  /\ pc = "menu"
        /\ fs' = out.fs
        /\ docs' = out.docs
        /\ temp_files' = IF out.error = "" THEN <<>> ELSE temp_files
        /\ pc' = IF out.error = "" THEN "menu" ELSE "crashed"
        /\ cl' = [op |-> "cleanup", tracked |-> temp_files, error |-> out.error]
        /\ UNCHANGED <<cr, ex, creates, extracts, ui, vf, cp>>

\* menu option 3: when the file holds the signature, the bytes from its first
\* occurrence are written to temp_verify.zip, which is appended to temp_files
verify_polyglot(polyglot_path) ==
    LET data == fs[polyglot_path]
        has_zip == Find(data, Signature) # -1
        zip_start == Find(data, Signature)
        zip_data == SliceFrom(data, zip_start)
    IN  /\ pc = "menu"
        /\ vf.n < MaxVerifies
        /\ Exists(fs, polyglot_path)
        /\ vf' = [n |-> vf.n + 1, polyglot_path |-> polyglot_path, has_zip |-> has_zip]
        /\ fs' = IF has_zip THEN WriteFile(fs, TempVerifyPath, zip_data) ELSE fs
        /\ temp_files' = IF has_zip THEN Append(temp_files, TempVerifyPath)
                         ELSE temp_files
        /\ UNCHANGED <<docs, pc, cr, ex, creates, extracts, ui, cl, cp>>

\* an abort that exits without calling cleanup
KeyboardInterruptNoCleanup ==
    /\ pc \in {"menu", "split"}
    /\ pc' = "exited"
    /\ cl' = [op |-> "interrupt", tracked |-> temp_files, error |-> ""]
    /\ UNCHANGED <<fs, docs, temp_files, cr, ex, creates, extracts, ui, vf, cp>>

\* except KeyboardInterrupt: tool.cleanup(); sys.exit(0) -- the exception
\* arrives at a prompt or between two parts of a running split
KeyboardInterrupt ==
    LET out == CleanupLoop(fs, docs, temp_files)
    IN  /\ pc \in {"menu", "split"}
        /\ fs' = out.fs
        /\ docs' = out.docs
        /\ temp_files' = IF out.error = "" THEN <<>> ELSE temp_files
        /\ pc' = IF out.error = "" THEN "exited" ELSE "crashed"
        /\ cl' = [op |-> "interrupt", tracked |-> temp_files, error |-> out.error]
        /\ UNCHANGED <<cr, ex, creates, extracts, ui, vf, cp>>

\* a directory with a video template and an archive, without and with the
\* signature
SessionVideo == PathOf("v", "mp4", 0)

SessionPayloads == {<<120>>, Signature \o <<120>>}

InitSession ==
    \E c \in PlanContainers, a \in SessionPayloads :
        InitState(InputFiles(SessionVideo, c, a))

\* the files the user names for verification
VerifyPaths == {p \in DOMAIN fs : p.kind \in {"mp4", "part", "zip"} /\ p.n <= 1}

CreateSession ==
    \E split_size \in SplitSizes :
        \/ create_split_polyglot(SessionVideo, <<ArchivePath>>, "o", split_size)
        \/ create_split_polyglot_direct(SessionVideo, ArchivePath, "o", split_size)

Verify == \E polyglot_path \in VerifyPaths : verify_polyglot(polyglot_path)

NextSession ==
    \/ CreateSession
    \/ WritePart
    \/ FinishSplit
    \/ main
    \/ Verify
    \/ cleanup
    \/ KeyboardInterrupt

SpecSession == InitSession /\ [][NextSession]_vars

(***************************************************************************)
(* The range-bounded copy loop on its own, one read per step, over sources *)
(* and ranges of up to MaxChunks chunks; only the sizes matter.            *)
(***************************************************************************)
CopySizes ==
    {n \in {k * chunk_size + d : k \in 0..MaxChunks, d \in {-1, 0, 1}} : n >= 0}

InitCopy == InitState([p \in {} |-> <<>>])

\* zip_in.seek(start); copied = 0
CopyBegin(src_len, start, part_len) ==
    /\ cp.op \in {"none", "done"}
    /\ cp' = [NoCopy EXCEPT !.op = "loop", !.src_len = src_len, !.start = start,
                            !.part_len = part_len, !.pos = start]
    /\ UNCHANGED <<fs, docs, temp_files, pc, cr, ex, creates, extracts, ui, vf, cl>>

\* one evaluation of "while copied < part_len" and, if it holds, one pass of
\* the body: the read, the break on an empty chunk, the write, copied += len
CopyStep ==
    /\ cp.op = "loop"
    /\ IF ~(cp.copied < cp.part_len)
       THEN cp' = [cp EXCEPT !.op = "done"]
       ELSE LET to_read == ToRead(cp.part_len, cp.copied)
                chunk_len == ReadLen(cp.src_len, cp.pos, to_read)
            IN  IF chunk_len = 0
                THEN cp' = [cp EXCEPT !.op = "done", !.to_read = to_read,
                                      !.reads = cp.reads + 1]
                ELSE cp' = [cp EXCEPT !.to_read = to_read,
                                      !.reads = cp.reads + 1,
                                      !.pos = cp.pos + chunk_len,
                                      !.copied = cp.copied + chunk_len]
    /\ UNCHANGED <<fs, docs, temp_files, pc, cr, ex, creates, extracts, ui, vf, cl>>

NextCopy ==
    \/ \E src_len \in CopySizes, start \in CopySizes, part_len \in CopySizes :
           CopyBegin(src_len, start, part_len)
    \/ CopyStep

SpecCopy == InitCopy /\ [][NextCopy]_vars

(***************************************************************************)
(* Properties.                                                             *)
(***************************************************************************)
SplitOps == {"split", "split_direct"}

SingleOps == {"single", "single_direct"}

\* sig occurs in X at 0-based offset k
OccursAt(X, sig, k) ==
    /\ k >= 0
    /\ k + Len(sig) <= Len(X)
    /\ \A j \in 1..Len(sig) : X[k + j] = sig[j]

OccursIn(X, sig) == \E k \in 0..Len(X) : OccursAt(X, sig, k)

\* the bytes of X from 0-based offset k to the end
Suffix(X, k) == [j \in 1..(Len(X) - k) |-> X[k + j]]

\* the bytes of X in the half-open range [lo, hi)
Range(X, lo, hi) == [j \in 1..(hi - lo) |-> X[lo + j]]

SeqSet(q) == {q[k] : k \in 1..Len(q)}

\* the latest extraction ran after the latest create operation had returned
ExtractedAfterCreate == ex.op # "none" /\ ex.after = creates /\ creates > 0

\* the split create operation has written all its parts
SplitWritten == cr.op \in SplitOps /\ cr.i = cr.num_parts

\* the files read by the latest extraction, in the order they were read
ScannedFiles ==
    IF ex.op = "combine" THEN ex.part_files
    ELSE IF ex.op = "single" THEN <<ex.polyglot_path>>
    ELSE <<>>

\* C3: for every payload length >= 1 and split size >= 1 the split writers
\* compute num_parts = ceil(length / split_size) and ranges
\* [i*split_size, min((i+1)*split_size, length)) that are contiguous, pairwise
\* disjoint, each non-empty, and that cover [0, length) exactly.
C3_SplitPlanCoverage ==
    cr.op \in SplitOps =>
        LET n == cr.num_parts
            s == cr.split_size
            z == cr.zip_size
            lo(i) == PartStart(i, s)
            hi(i) == PartEnd(i, s, z)
        IN  /\ n >= 1
            /\ n * s >= z
            /\ (n - 1) * s < z
            /\ lo(0) = 0
            /\ hi(n - 1) = z
            /\ \A i \in 0..(n - 1) :
                   /\ lo(i) = i * s
                   /\ hi(i) = (IF (i + 1) * s < z THEN (i + 1) * s ELSE z)
                   /\ hi(i) - lo(i) > 0
                   /\ PartLen(i, s, z) = hi(i) - lo(i)
                   /\ i < n - 1 => hi(i) = lo(i + 1)
            /\ \A i, j \in 0..(n - 1) : i < j => hi(i) <= lo(j)
            /\ \A b \in 0..(z - 1) :
                   Cardinality({i \in 0..(n - 1) : lo(i) <= b /\ b < hi(i)}) = 1

\* a split of at least three parts whose last part is shorter than the others
C3_Witness ==
    /\ SplitWritten
    /\ cr.num_parts >= 3
    /\ cr.zip_size % cr.split_size # 0
    /\ Len(cr.polyglot_videos) = cr.num_parts

\* C9: the scan reports the offset of the first occurrence of the signature
\* whenever the signature occurs in the data, and "not found" (-1) exactly when
\* it occurs nowhere.
C9_ScanFirstOccurrence ==
    ex.after = creates =>
        \A k \in 1..Len(ex.scan) :
            LET X == fs[ScannedFiles[k]]
                r == ex.scan[k]
            IN  /\ (r = -1) <=> ~OccursIn(X, Signature)
                /\ r # -1 =>
                       /\ OccursAt(X, Signature, r)
                       /\ \A e \in 0..(r - 1) : ~OccursAt(X, Signature, e)

\* a recombination in which one part has no signature and another has its
\* first signature after the start of the file
C9_Witness ==
    /\ ex.op = "combine"
    /\ \E j, k \in 1..Len(ex.scan) : ex.scan[j] = -1 /\ ex.scan[k] > 0

\* C8: when the signature occurs nowhere in the file, extract_single_polyglot
\* ends in the no-payload-signature failure and writes no file; when it occurs,
\* the one file written holds the file's bytes from the first occurrence to the
\* end of the file.
C8_SingleExtraction ==
    [][(extracts' = extracts + 1 /\ ex'.op = "single") =>
          LET X == fs[ex'.polyglot_path]
              output_zip == ExtractedZipPath(ex'.polyglot_path)
          IN  IF ~OccursIn(X, Signature)
              THEN /\ ex'.console = "no_zip_data"
                   /\ ex'.output_zip = NoPath
                   /\ fs' = fs
              ELSE \E k \in 0..Len(X) :
                       /\ OccursAt(X, Signature, k)
                       /\ \A e \in 0..(k - 1) : ~OccursAt(X, Signature, e)
                       /\ ex'.console # "no_zip_data"
                       /\ ex'.output_zip = output_zip
                       /\ DOMAIN fs' = (DOMAIN fs) \cup {output_zip}
                       /\ fs'[output_zip] = Suffix(X, k)
                       /\ \A p \in (DOMAIN fs) \ {output_zip} : fs'[p] = fs[p]]_vars

\* a single extraction of a non-empty file that holds no signature: the
\* failure is reported and no extracted file exists
C8_Witness ==
    /\ ex.op = "single"
    /\ Len(fs[ex.polyglot_path]) >= Len(Signature)
    /\ ex.console = "no_zip_data"
    /\ ~Exists(fs, ExtractedZipPath(ex.polyglot_path))

\* C2: for every container C and non-empty payload P, the bytes that
\* extract_single_polyglot writes for the file C followed by P made by
\* single-mode creation are exactly P.
C2_SingleRoundTrip ==
    (/\ ExtractedAfterCreate
     /\ cr.op \in SingleOps
     /\ ex.op = "single"
     /\ ex.polyglot_path = SingleOutputPath(cr.output_base)
     /\ fs[ex.polyglot_path] = cr.container \o cr.payload)
    => (/\ Exists(fs, ExtractedZipPath(ex.polyglot_path))
        /\ fs[ExtractedZipPath(ex.polyglot_path)] = cr.payload)

\* C1: for every container C, non-empty payload P and part size s >= 1,
\* combine_split_polyglots run on all parts produced by the split create
\* operation writes combined bytes equal to P.
C1_SplitRoundTrip ==
    (/\ ExtractedAfterCreate
     /\ SplitWritten
     /\ ex.op = "combine"
     /\ SeqSet(ex.part_files) = SeqSet(cr.polyglot_videos))
    => (/\ fs[CombinedZipPath] = cr.payload
        /\ Md5(fs[CombinedZipPath]) = Md5(cr.payload))

\* C4: every file written by a single-mode or split-mode create consists of
\* all container bytes followed by exactly one payload range (the whole payload
\* in single mode, the part's plan range in split mode): its length is
\* containerSize + rangeLength and the range starts at offset containerSize.
C4_PolyglotLayout ==
    /\ (cr.op \in SingleOps /\ cr.error = "") =>
           LET file == fs[SingleOutputPath(cr.output_base)]
           IN  /\ Len(file) = Len(cr.container) + Len(cr.payload)
               /\ Range(file, 0, Len(cr.container)) = cr.container
               /\ Suffix(file, Len(cr.container)) = cr.payload
    /\ cr.op \in SplitOps =>
           \A k \in 1..Len(cr.polyglot_videos) :
               LET file == fs[cr.polyglot_videos[k]]
                   lo == PartStart(k - 1, cr.split_size)
                   hi == PartEnd(k - 1, cr.split_size, cr.zip_size)
               IN  /\ Len(file) = Len(cr.container) + (hi - lo)
                   /\ Range(file, 0, Len(cr.container)) = cr.container
                   /\ Suffix(file, Len(cr.container)) = Range(cr.payload, lo, hi)

\* C10: in split mode the checksum recorded for part i is the digest of
\* exactly the payload range [i*split_size, min((i+1)*split_size, length)) of
\* the payload, with no container byte included, for every part i.
C10_PartChecksum ==
    cr.op \in SplitOps =>
        /\ Len(cr.part_checksums) = Len(cr.polyglot_videos)
        /\ \A k \in 1..Len(cr.part_checksums) :
               cr.part_checksums[k] =
                   Md5(Range(cr.payload,
                             PartStart(k - 1, cr.split_size),
                             PartEnd(k - 1, cr.split_size, cr.zip_size)))

\* C5: a recombination that used the heuristic offset for a part without
\* signature tells the caller so: it does not end with the same success report
\* as a recombination in which every signature was found.
C5_FallbackSurfaced ==
    (/\ ex.op = "combine"
     /\ \E k \in 1..Len(ex.scan) : ex.scan[k] = -1)
    => ex.console # "combined_ok"

\* C6: the payload slices are concatenated in ascending part-number order for
\* every part count, ten parts and more included.
C6_AscendingPartOrder ==
    ex.op = "combine" =>
        \A j, k \in 1..Len(ex.part_files) :
            j < k => ex.part_files[j].n < ex.part_files[k].n

\* C7: a reconstruction whose checksum differs from the checksum recorded at
\* creation is reported as a mismatch, never as a plain success.
C7_MismatchReported ==
    (/\ ExtractedAfterCreate
     /\ SplitWritten
     /\ ex.op = "combine"
     /\ Md5(fs[CombinedZipPath]) # cr.original_checksum)
    => ex.console # "combined_ok"

\* the part files that a step creates or rewrites
PartsWritten ==
    {p \in DOMAIN fs' : p.kind = "part" /\ (p \notin DOMAIN fs \/ fs'[p] # fs[p])}

\* the lists of the running or finished split hold one entry per part written,
\* entry k being the k-th part name and the digest read back from that file
PartListsInOrder ==
    cr.op \in SplitOps =>
        /\ cr.i <= cr.num_parts
        /\ Len(cr.polyglot_videos) = cr.i
        /\ Len(cr.part_checksums) = cr.i
        /\ (pc # "split" /\ cr.error # "OSError") => cr.i = cr.num_parts
        /\ \A k \in 1..cr.i :
               LET file == PathOf(cr.output_base, "part", k)
               IN  /\ cr.polyglot_videos[k] = file
                   /\ Exists(fs, file)
                   /\ cr.part_checksums[k] =
                          Md5(Suffix(fs[file], Len(fs[cr.video_path])))

\* C11: in split mode the parts are written in ascending index order, and the
\* lists of part file names and part checksums have the length of the part
\* count and are in part-index order: entry i of both lists belongs to part
\* i+1, the checksum being the one computed from that file.
C11_PartListOrder ==
    /\ []PartListsInOrder
    /\ [][\A p \in PartsWritten :
              /\ cr.op \in SplitOps
              /\ p = PathOf(cr.output_base, "part", cr.i + 1)
              /\ cr'.i = cr.i + 1
              /\ PartsWritten = {p}]_vars

\* a finished split of at least three parts whose checksums are not all equal
C11_Witness ==
    /\ SplitWritten
    /\ pc = "menu"
    /\ cr.num_parts >= 3
    /\ Len(cr.part_checksums) = cr.num_parts
    /\ \E j, k \in 1..cr.num_parts : cr.part_checksums[j] # cr.part_checksums[k]

\* the number written by a sequence of decimal digit characters
RECURSIVE DigitsValue(_)
DigitsValue(digits) ==
    IF digits = <<>> THEN 0
    ELSE 10 * DigitsValue(SubSeq(digits, 1, Len(digits) - 1))
         + (digits[Len(digits)] - 48)

\* string a comes strictly before string b in lexicographic order
LexBefore(a, b) ==
    \E d \in 1..Len(b) :
        /\ \A e \in 1..(d - 1) : e <= Len(a) /\ a[e] = b[e]
        /\ d > Len(a) \/ (d - 1 < Len(a) /\ a[d] < b[d])

\* the characters of "<base>_part" and of ".mp4"
PartPrefix(base) == BaseChars(base) \o <<95, 112, 97, 114, 116>>

DotMp4 == <<46, 109, 112, 52>>

\* C12: split mode with N parts produces exactly the N distinct names
\* <base>_part1 .. <base>_partN, and for every N <= 9 the lexicographic sort
\* of these names equals the part-index order.
C12_PartNames ==
    SplitWritten =>
        LET N == cr.num_parts
            produced == cr.polyglot_videos
            pre == PartPrefix(cr.output_base)
        IN  /\ Len(produced) = N
            /\ Cardinality({Name(produced[k]) : k \in 1..N}) = N
            /\ \A k \in 1..N :
                   LET name == Name(produced[k])
                       digits == SubSeq(name, Len(pre) + 1, Len(name) - Len(DotMp4))
                   IN  /\ Exists(fs, produced[k])
                       /\ SubSeq(name, 1, Len(pre)) = pre
                       /\ SubSeq(name, Len(name) - Len(DotMp4) + 1, Len(name)) = DotMp4
                       /\ digits # <<>>
                       /\ \A d \in 1..Len(digits) : digits[d] \in 48..57
                       /\ digits[1] # 48
                       /\ DigitsValue(digits) = k
            /\ N <= 9 =>
                   /\ \A j, k \in 1..N :
                          j < k => LexBefore(Name(produced[j]), Name(produced[k]))
                   /\ Sorted(SeqSet(produced)) = produced

\* a finished split of at least five and at most nine parts
C12_Witness ==
    /\ SplitWritten
    /\ cr.num_parts \in 5..9
    /\ Sorted(SeqSet(cr.polyglot_videos)) = cr.polyglot_videos

\* C13: when extract_split_polyglot finds exactly one candidate part it does
\* the single-file extraction of the given path; when it finds more than one,
\* combine_split_polyglots runs only after the user confirmed, and a declined
\* confirmation combines nothing and writes no combined output.
C13_PartDiscovery ==
    [][(/\ extracts' = extracts + 1
        /\ ui'.op = "extract"
        /\ ui'.polyglot_path.kind = "part") =>
          LET path == ui'.polyglot_path
              candidates == {p \in DOMAIN fs : p.kind = "part" /\ p.base = path.base}
          IN  /\ Cardinality(candidates) >= 1
              /\ Cardinality(candidates) = 1 =>
                     /\ ex'.op = "single"
                     /\ ex'.polyglot_path = path
                     /\ ex'.scan = <<Find(fs[path], Signature)>>
                     /\ \A p \in DOMAIN fs' :
                            p # ExtractedZipPath(path) => p \in DOMAIN fs /\ fs'[p] = fs[p]
              /\ Cardinality(candidates) > 1 =>
                     /\ ex'.op = "combine" <=> ui'.extract_all
                     /\ ui'.extract_all =>
                            /\ SeqSet(ex'.part_files) = candidates
                            /\ Exists(fs', CombinedZipPath)
                     /\ ~ui'.extract_all =>
                            /\ fs' = fs
                            /\ ex'.part_files = <<>>
                            /\ ex'.scan = <<>>
                            /\ ex'.output_zip = NoPath]_vars

\* two candidate parts were found and the user declined: nothing was combined
C13_Witness ==
    /\ ui.op = "extract"
    /\ ~ui.extract_all
    /\ Cardinality(PossibleParts(fs, ui.polyglot_path)) > 1
    /\ ex.console = "declined"
    /\ ~Exists(fs, CombinedZipPath)

\* C14: when the folder chosen as input holds zero files, creation is rejected
\* before any output file is created: no polyglot file and no recovery file
\* exists afterwards.
C14_EmptyInputRejected ==
    (/\ cr.op = "single"
     /\ cr.error = ""
     /\ cr.files_to_hide = <<>>
     /\ SingleOutputPath(cr.output_base) # cr.video_path)
    => (/\ ~Exists(fs, SingleOutputPath(cr.output_base))
        /\ ~Exists(docs, RecoveryInfoPath(SingleOutputPath(cr.output_base))))

\* the final output names of the latest create operation
OutputNames ==
    IF cr.op \in SingleOps THEN {SingleOutputPath(cr.output_base)}
    ELSE IF cr.op \in SplitOps
         THEN {PathOf(cr.output_base, "part", k) : k \in 1..cr.num_parts}
    ELSE {}

\* C15: if a single-mode or split-mode create fails partway with an I/O error
\* at a read or write step, in any part, then after the failure no file exists
\* under any final output name of that operation.
C15_NoPartialOutput ==
    cr.error = "OSError" =>
        \A p \in OutputNames : p # cr.video_path => ~Exists(fs, p)

\* C16: the container template is never mutated: after any single-mode or
\* split-mode create, for every output base name (one whose output path is the
\* container's path included), the container file holds the bytes it held
\* before the operation, and every part of a split starts with the full
\* container.
C16_ContainerUnchanged ==
    (cr.op # "none" /\ cr.error = "") =>
        /\ Exists(fs, cr.video_path)
        /\ fs[cr.video_path] = cr.container
        /\ cr.op \in SplitOps =>
               \A k \in 1..Len(cr.polyglot_videos) :
                   LET file == fs[cr.polyglot_videos[k]]
                   IN  /\ Len(file) >= Len(cr.container)
                       /\ Range(file, 0, Len(cr.container)) = cr.container

\* the bytes of a source of src_len bytes from offset start on
Available(src_len, start) == IF start < src_len THEN src_len - start ELSE 0

\* the number of chunks needed for n bytes
ChunksFor(n) == (n + chunk_size - 1) \div chunk_size

\* C17: the loop that copies one part's payload range starts at the range's
\* start offset, requests at most one chunk (16 MiB) and at most the remaining
\* byte count per read, never copies more than part_len bytes, terminates, and
\* ends with copied = min(part_len, bytes available from the start offset).
C17_RangeBoundedCopy ==
    /\ [](cp.op # "none" =>
             /\ cp.pos = cp.start + cp.copied
             /\ cp.copied >= 0
             /\ cp.copied <= cp.part_len
             /\ cp.copied <= Available(cp.src_len, cp.start)
             /\ cp.to_read <= 16 * 1024 * 1024
             /\ cp.reads <= ChunksFor(Min(cp.part_len,
                                          Available(cp.src_len, cp.start))) + 1
             /\ cp.op = "done" =>
                    cp.copied = Min(cp.part_len, Available(cp.src_len, cp.start)))
    /\ [][(cp'.reads = cp.reads + 1) =>
              /\ cp'.to_read >= 1
              /\ cp'.to_read <= 16 * 1024 * 1024
              /\ cp'.to_read <= cp.part_len - cp.copied
              /\ cp'.copied - cp.copied <= cp'.to_read
              /\ cp'.op = "loop" => cp'.copied > cp.copied]_vars

\* a range of more than one chunk, not a whole number of chunks, copied in
\* full from an offset inside the source
C17_Witness ==
    /\ cp.op = "done"
    /\ cp.start > 0
    /\ cp.reads >= 2
    /\ cp.part_len > chunk_size
    /\ cp.part_len % chunk_size # 0
    /\ cp.copied = cp.part_len
    /\ cp.start + cp.part_len < cp.src_len

\* the files of f outside the paths of the list tracked are the same in g
SameOutside(f, g, tracked) ==
    /\ DOMAIN g \subseteq DOMAIN f
    /\ \A p \in DOMAIN f : p \notin SeqSet(tracked) => p \in DOMAIN g /\ g[p] = f[p]
    /\ \A p \in DOMAIN g : g[p] = f[p]

\* C18: when the user aborts (KeyboardInterrupt) at any point of a menu
\* session, no further output is written and cleanup runs before the process
\* exits: every temporary file tracked in temp_files at that moment has been
\* removed when the program has terminated.
C18_Cancellation ==
    /\ [](pc = "exited" =>
             /\ cl.op = "interrupt"
             /\ cl.error = ""
             /\ \A k \in 1..Len(cl.tracked) : ~OsPathExists(fs, docs, cl.tracked[k]))
    /\ [][(cl'.op = "interrupt" /\ cl.op # "interrupt") =>
              /\ pc' = "exited"
              /\ cl'.tracked = temp_files
              /\ SameOutside(fs, fs', temp_files)
              /\ SameOutside(docs, docs', temp_files)
              /\ cr' = cr]_vars
    /\ [][pc = "exited" => (fs' = fs /\ docs' = docs)]_vars

\* the user aborted a split between two parts while temporary files of an
\* earlier operation were tracked
C18_Witness ==
    /\ pc = "exited"
    /\ cl.tracked # <<>>
    /\ cr.op \in SplitOps
    /\ cr.i > 0
    /\ cr.i < cr.num_parts
    /\ Exists(fs, PathOf(cr.output_base, "part", 1))

\* C19: for every content of temp_files reachable by menu operations
\* (duplicate entries and entries whose file is already gone included),
\* cleanup() completes without error, leaves temp_files empty and leaves no
\* tracked path existing; a second cleanup() right after changes nothing.
C19_CleanupPostcondition ==
    [][(cl' # cl) =>
          /\ cl'.tracked = temp_files
          /\ cl'.error = ""
          /\ pc' # "crashed"
          /\ temp_files' = <<>>
          /\ \A k \in 1..Len(temp_files) : ~OsPathExists(fs', docs', temp_files[k])
          /\ SameOutside(fs, fs', temp_files)
          /\ SameOutside(docs, docs', temp_files)
          /\ temp_files = <<>> => (fs' = fs /\ docs' = docs)]_vars

\* cleanup() ran from the menu on a registry that held the same path twice
C19_Witness ==
    /\ cl.op = "cleanup"
    /\ pc = "menu"
    /\ temp_files = <<>>
    /\ \E j, k \in 1..Len(cl.tracked) : j < k /\ cl.tracked[j] = cl.tracked[k]
    /\ \A k \in 1..Len(cl.tracked) : ~OsPathExists(fs, docs, cl.tracked[k])

\* C20: for every part count N >= 1, N = 1 included, the split create
\* operations run to completion: after the N parts are written, the recovery
\* package listing all N parts and their checksums is created without error.
C20_RecoveryForAnyPartCount ==
    (SplitWritten /\ pc # "split" /\ cr.error # "OSError") =>
        /\ cr.error = ""
        /\ Exists(docs, RecoveryZipPath(cr.output_base))
        /\ docs[RecoveryZipPath(cr.output_base)] =
               Doc(cr.polyglot_videos, cr.part_checksums, cr.original_checksum)
        /\ Len(cr.polyglot_videos) = cr.num_parts
        /\ Len(cr.part_checksums) = cr.num_parts

\* C21: the temporary archive '<output_base>_temp.zip' written by
\* create_split_polyglot no longer exists once create_split_polyglot has
\* ended, on every exit path: after normal completion and after a failure
\* while writing any part or while building the recovery package.
C21_TempZipRemoved ==
    (cr.op = "split" /\ pc # "split") =>
        ~Exists(fs, TempZipPath(cr.output_base))

====
